---------------------------- MODULE Spec2Model ----------------------------
(***************************************************************************)
(* A model of the royalty transfer hook of transfer-hook/src/lib.rs:       *)
(* the metadata provisioner initialize_extra_account_meta_list, the        *)
(* instruction dispatcher fallback and the royalty handler transfer_hook,  *)
(* together with the collaborators they call (the account validation the   *)
(* Accounts structs declare, the token transfer primitive, the account     *)
(* creation primitive and the all-or-nothing execution of one              *)
(* instruction).                                                           *)
(*                                                                         *)
(* A u64 is kept at its full width: it is a sequence of four 16-bit limbs, *)
(* least significant first, so that amount * 5 overflows exactly where it  *)
(* does in the program.                                                    *)
(***************************************************************************)
EXTENDS Integers, Sequences, FiniteSets, TLC

(***************************************************************************)
(* Bounds of the model.                                                    *)
(***************************************************************************)
\* Invocations of the program in one behaviour, each with every input.
MaxCalls == 1
\* Invocations of the program in one behaviour of the sequences.
MaxSeqCalls == 3
\* The small amounts 0..MaxSmallAmount are all tried.
MaxSmallAmount == 2
\* Amounts Threshold .. Threshold + MaxOver are tried, where Threshold is
\* the largest amount whose product with 5 still fits a u64.
MaxOver == 1
\* Raw instruction data is tried at every length 0..MaxDataLen.
MaxDataLen == 16
\* The accounts of an invocation that fail the validation of their
\* accounts struct differ from accounts that pass it in at most MaxFaults
\* places.
MaxFaults == 1
\* The pure split is tried on 0..MaxSplitAmount (and around the overflow
\* threshold and the u64 maximum, MaxSplitBand to each side).
MaxSplitAmount == 240
MaxSplitBand == 25

(***************************************************************************)
(* u64 arithmetic on limbs.                                                *)
(***************************************************************************)
Base == 256 * 256
Limb == 0 .. (Base - 1)
U64 == [1 .. 4 -> Limb]
Byte == 0 .. 255

U64Zero == <<0, 0, 0, 0>>
U64Max == <<Base - 1, Base - 1, Base - 1, Base - 1>>

\* n < 2^31 as a u64.
FromNat(n) == <<n % Base, n \div Base, 0, 0>>

\* a * k for a small k: the low 64 bits and the carry out of them.
MulSmall(a, k) ==
    LET p1 == a[1] * k
        p2 == a[2] * k + (p1 \div Base)
        p3 == a[3] * k + (p2 \div Base)
        p4 == a[4] * k + (p3 \div Base)
    IN  [value |-> <<p1 % Base, p2 % Base, p3 % Base, p4 % Base>>,
         carry |-> p4 \div Base]

\* floor(a / d) for a small d, by long division from the top limb.
DivSmall(a, d) ==
    LET t4 == a[4]
        t3 == (t4 % d) * Base + a[3]
        t2 == (t3 % d) * Base + a[2]
        t1 == (t2 % d) * Base + a[1]
    IN  <<t1 \div d, t2 \div d, t3 \div d, t4 \div d>>

\* a mod d for a small d.
ModSmall(a, d) ==
    ((((((a[4] % d) * Base + a[3]) % d) * Base + a[2]) % d) * Base + a[1]) % d

\* a + b: the low 64 bits and the carry out of them.
AddU64(a, b) ==
    LET s1 == a[1] + b[1]
        s2 == a[2] + b[2] + (s1 \div Base)
        s3 == a[3] + b[3] + (s2 \div Base)
        s4 == a[4] + b[4] + (s3 \div Base)
    IN  [value |-> <<s1 % Base, s2 % Base, s3 % Base, s4 % Base>>,
         carry |-> s4 \div Base]

\* a - b modulo 2^64 and whether it borrowed (a < b).
SubU64(a, b) ==
    LET d1 == a[1] - b[1]
        b1 == IF d1 < 0 THEN 1 ELSE 0
        d2 == a[2] - b[2] - b1
        b2 == IF d2 < 0 THEN 1 ELSE 0
        d3 == a[3] - b[3] - b2
        b3 == IF d3 < 0 THEN 1 ELSE 0
        d4 == a[4] - b[4] - b3
        b4 == IF d4 < 0 THEN 1 ELSE 0
    IN  [value |-> <<d1 + b1 * Base, d2 + b2 * Base, d3 + b3 * Base, d4 + b4 * Base>>,
         borrow |-> b4]

LessU64(a, b) == SubU64(a, b).borrow = 1
LeqU64(a, b) == SubU64(b, a).borrow = 0

\* The 8 little-endian bytes of a u64 (u64::to_le_bytes) and back
\* (u64::from_le_bytes, and the Borsh decoding of a u64 argument).
ToLeBytes(a) ==
    <<a[1] % 256, a[1] \div 256, a[2] % 256, a[2] \div 256,
      a[3] % 256, a[3] \div 256, a[4] % 256, a[4] \div 256>>

FromLeBytes(b) ==
    <<b[1] + 256 * b[2], b[3] + 256 * b[4], b[5] + 256 * b[6], b[7] + 256 * b[8]>>


(***************************************************************************)
(* Constants of the program and of the interfaces it is built against.     *)
(***************************************************************************)
\* const ROYALTY_PERCENTAGE: u64 = 5;
ROYALTY_PERCENTAGE == 5
\* The divisor of `amount * ROYALTY_PERCENTAGE / 100`.
PERCENT_DENOMINATOR == 100

\* The selectors the #[program] module gives its two instruction handlers:
\* the first 8 bytes of sha256("global:<name>").
TRANSFER_HOOK_SELECTOR == <<220, 57, 220, 152, 126, 125, 97, 168>>
INITIALIZE_SELECTOR == <<92, 197, 174, 197, 41, 124, 19, 3>>

\* The discriminators of the transfer-hook interface's instructions: the
\* first 8 bytes of sha256("spl-transfer-hook-interface:<name>").
EXECUTE_DISCRIMINATOR == <<105, 37, 101, 197, 75, 251, 102, 26>>
INITIALIZE_LIST_DISCRIMINATOR == <<43, 34, 13, 49, 167, 88, 235, 235>>
UPDATE_LIST_DISCRIMINATOR == <<157, 105, 42, 146, 102, 85, 241, 174>>
\* Eight bytes that are no selector and no discriminator.
UNKNOWN_DISCRIMINATOR == <<1, 2, 3, 4, 5, 6, 7, 8>>

\* TransferHookInstruction::unpack reads an 8-byte discriminator and, for
\* Execute, an 8-byte amount.
DISCRIMINATOR_LENGTH == 8
AMOUNT_LENGTH == 8
\* The extra-account list's encoding: a 4-byte count, then 35 bytes a meta.
LIST_COUNT_LENGTH == 4
EXTRA_ACCOUNT_META_LENGTH == 35

(***************************************************************************)
(* The accounts of the model.                                              *)
(***************************************************************************)
Mints == {"M1", "M2"}
Owners == {"alice", "bob"}
Payers == {"payer1", "payer2", "payer3"}
\* payer1 and payer2 are accounts of the system program without data;
\* payer3 is a keypair account that another program owns and that holds data.
PayerIsSystemAccount == [p \in Payers |-> p # "payer3"]
\* What a caller may pass where the mint is expected: a mint, or "wallet",
\* a funded account of the system program.
MintAccounts == Mints \cup {"wallet"}
\* What a caller may pass where a program is expected.
TokenPrograms == {"token", "token_2022"}
Programs == TokenPrograms \cup {"associated_token", "system", "other_program"}
TokenAccounts == {"a1", "a2", "a3", "b1"}
\* What a caller may pass where a token account is expected: a token
\* account, or "wallet", a funded account of the system program.
HolderAccounts == TokenAccounts \cup {"wallet"}

\* TokenAccount.mint and TokenAccount.owner, which no operation of the
\* program changes.
MintOf == [a \in TokenAccounts |-> IF a = "b1" THEN "M2" ELSE "M1"]
OwnerOf == [a \in TokenAccounts |-> IF a \in {"a2", "b1"} THEN "bob" ELSE "alice"]

\* The address derived from the seeds [b"extra-account-metas", mint] and
\* the program id: one address per mint, none shared.
FindProgramAddress(mint) == <<"extra-account-metas", mint>>
\* An address that is derived from no mint.
OtherAddress == <<"keypair", "K">>
MetaAddresses == {FindProgramAddress(m) : m \in Mints} \cup {OtherAddress}

\* The largest amount whose product with ROYALTY_PERCENTAGE fits a u64.
Threshold == DivSmall(U64Max, ROYALTY_PERCENTAGE)

\* The balances the behaviours start from: their sum per mint fits a u64,
\* as the token program's supply does.
InitialBalance ==
    [a \in TokenAccounts |->
        CASE a = "a1" -> SubU64(U64Max, FromNat(1000)).value
          [] a = "a2" -> FromNat(1000)
          [] a = "a3" -> U64Zero
          [] OTHER -> FromNat(100)]

(***************************************************************************)
(* The royalty split, lines 69-71 of lib.rs.                               *)
(*   let royalty_amount = amount * ROYALTY_PERCENTAGE / 100;               *)
(*   let transfer_amount = amount - royalty_amount;                        *)
(* With overflow checks compiled in, an overflowing * or - panics; without *)
(* them it wraps modulo 2^64.  Which one holds is the build's choice.      *)
(***************************************************************************)
\* A variant of royalty_amount that divides before it multiplies.
royalty_amount_divide_first(amount) ==
    MulSmall(DivSmall(amount, PERCENT_DENOMINATOR), ROYALTY_PERCENTAGE).value

royalty_amount(amount) ==
    DivSmall(MulSmall(amount, ROYALTY_PERCENTAGE).value, PERCENT_DENOMINATOR)

\* A variant of transfer_amount with the operands of - exchanged.
transfer_amount_swapped(amount) == SubU64(royalty_amount(amount), amount).value

transfer_amount(amount) == SubU64(amount, royalty_amount(amount)).value

SplitPanics(amount, checks) ==
    /\ checks
    /\ \/ MulSmall(amount, ROYALTY_PERCENTAGE).carry # 0
       \/ SubU64(amount, royalty_amount(amount)).borrow # 0

(***************************************************************************)
(* TransferHookInstruction::unpack(data), called at line 108: the          *)
(* interface's decoding of raw instruction data.                           *)
(***************************************************************************)
Take(s, n) == SubSeq(s, 1, IF n < Len(s) THEN n ELSE Len(s))
Drop(s, n) == SubSeq(s, n + 1, Len(s))
StartsWith(s, prefix) == Len(s) >= Len(prefix) /\ Take(s, Len(prefix)) = prefix

Decoded(variant, amount, error) ==
    [variant |-> variant, amount |-> amount, error |-> error]

\* The decoding of a list of extra-account metas: "Ok" or the error.
UnpackList(rest) ==
    IF Len(rest) < LIST_COUNT_LENGTH THEN "PodSliceError::BufferTooSmall"
    ELSE LET n == Len(rest) - LIST_COUNT_LENGTH
             max == n \div EXTRA_ACCOUNT_META_LENGTH
             countLow == rest[1] + 256 * rest[2]
             countHigh == rest[3] + 256 * rest[4]
         IN  IF max * EXTRA_ACCOUNT_META_LENGTH # n
             THEN IF max = 0 THEN "PodSliceError::BufferTooSmall"
                             ELSE "PodSliceError::BufferTooLarge"
             ELSE IF countHigh > 0 \/ countLow > max
                  THEN "ProgramFailedToComplete"
                  ELSE "Ok"

\* A variant of unpack that reads a short Execute payload as if zeros
\* followed it.
Unpack_zero_padded(data) ==
    IF Len(data) < DISCRIMINATOR_LENGTH
    THEN Decoded("Err", U64Zero, "InvalidInstructionData")
    ELSE IF Take(data, DISCRIMINATOR_LENGTH) = EXECUTE_DISCRIMINATOR
    THEN Decoded("Execute",
                 FromLeBytes(Take(Drop(data, DISCRIMINATOR_LENGTH)
                                      \o ToLeBytes(U64Zero), AMOUNT_LENGTH)), "")
    ELSE Decoded("Err", U64Zero, "InvalidInstructionData")

Unpack(data) ==
    IF Len(data) < DISCRIMINATOR_LENGTH
    THEN Decoded("Err", U64Zero, "InvalidInstructionData")
    ELSE LET discriminator == Take(data, DISCRIMINATOR_LENGTH)
             rest == Drop(data, DISCRIMINATOR_LENGTH)
         IN  IF discriminator = EXECUTE_DISCRIMINATOR
             THEN IF Len(rest) < AMOUNT_LENGTH
                  THEN Decoded("Err", U64Zero, "InvalidInstructionData")
                  ELSE Decoded("Execute", FromLeBytes(Take(rest, AMOUNT_LENGTH)), "")
             ELSE IF discriminator = INITIALIZE_LIST_DISCRIMINATOR
             THEN IF UnpackList(rest) = "Ok"
                  THEN Decoded("InitializeExtraAccountMetaList", U64Zero, "")
                  ELSE Decoded("Err", U64Zero, UnpackList(rest))
             ELSE IF discriminator = UPDATE_LIST_DISCRIMINATOR
             THEN IF UnpackList(rest) = "Ok"
                  THEN Decoded("UpdateExtraAccountMetaList", U64Zero, "")
                  ELSE Decoded("Err", U64Zero, UnpackList(rest))
             ELSE Decoded("Err", U64Zero, "InvalidInstructionData")

(***************************************************************************)
(* anchor_spl::token::transfer, called at lines 80-83 and 91-94: the token *)
(* program's transfer of `amount` from `from` to `to` under `authority`.   *)
(* It returns the balances it leaves and "Ok" or the error.                *)
(***************************************************************************)
\* anchor_spl::token::transfer addresses its instruction to the token
\* program (spl_token::ID), whose account the caller passed only when
\* token_program is that program; the token accounts and mints here are
\* all of that program.  With any other token_program the transfer fails.
Transferred(bal, result) == [bal |-> bal, result |-> result]

\* A variant of token_transfer that credits without debiting.
token_transfer_no_debit(bal, program, from, to, authority, is_signer, amount) ==
    IF program # "token" THEN Transferred(bal, "MissingAccount")
    ELSE IF LessU64(bal[from], amount) THEN Transferred(bal, "InsufficientFunds")
    ELSE IF MintOf[from] # MintOf[to] THEN Transferred(bal, "MintMismatch")
    ELSE IF OwnerOf[from] # authority THEN Transferred(bal, "OwnerMismatch")
    ELSE IF ~is_signer THEN Transferred(bal, "MissingRequiredSignature")
    ELSE IF from = to \/ amount = U64Zero THEN Transferred(bal, "Ok")
    ELSE IF AddU64(bal[to], amount).carry # 0 THEN Transferred(bal, "Overflow")
    ELSE Transferred([bal EXCEPT ![to] = AddU64(bal[to], amount).value], "Ok")

token_transfer(bal, program, from, to, authority, is_signer, amount) ==
    IF program # "token" THEN Transferred(bal, "MissingAccount")
    ELSE IF LessU64(bal[from], amount) THEN Transferred(bal, "InsufficientFunds")
    ELSE IF MintOf[from] # MintOf[to] THEN Transferred(bal, "MintMismatch")
    ELSE IF OwnerOf[from] # authority THEN Transferred(bal, "OwnerMismatch")
    ELSE IF ~is_signer THEN Transferred(bal, "MissingRequiredSignature")
    ELSE IF from = to \/ amount = U64Zero THEN Transferred(bal, "Ok")
    ELSE IF AddU64(bal[to], amount).carry # 0 THEN Transferred(bal, "Overflow")
    ELSE Transferred([bal EXCEPT ![from] = SubU64(bal[from], amount).value,
                                 ![to] = AddU64(bal[to], amount).value], "Ok")

(***************************************************************************)
(* #[derive(Accounts)] struct TransferHook, lines 146-171: the accounts    *)
(* of one invocation and the constraints checked before the handler runs.  *)
(***************************************************************************)
AllContexts ==
    [source_token : HolderAccounts,
     mint : MintAccounts,
     destination_token : HolderAccounts,
     royalty_token_account : HolderAccounts,
     owner : Owners,
     owner_is_signer : BOOLEAN,
     extra_account_meta_list : MetaAddresses,
     token_program : Programs]

\* The generated try_accounts: the accounts are read in the order of the
\* struct's fields (the three InterfaceAccount<TokenAccount>, the
\* InterfaceAccount<Mint>, the Interface<TokenInterface>; the two
\* UncheckedAccount are taken as they are), then the constraints are
\* checked in that order.  A context passes all seven accounts.

\* A variant of the validation without `token::mint = mint` on
\* destination_token.
TransferHook_try_accounts_no_destination_check(ctx) ==
    IF ctx.source_token \notin TokenAccounts THEN "AccountOwnedByWrongProgram"
    ELSE IF ctx.mint \notin Mints THEN "AccountOwnedByWrongProgram"
    ELSE IF ctx.destination_token \notin TokenAccounts
         THEN "AccountOwnedByWrongProgram"
    ELSE IF ctx.royalty_token_account \notin TokenAccounts
         THEN "AccountOwnedByWrongProgram"
    ELSE IF ctx.token_program \notin TokenPrograms THEN "InvalidProgramId"
    ELSE IF OwnerOf[ctx.source_token] # ctx.owner THEN "ConstraintTokenOwner"
    ELSE IF MintOf[ctx.source_token] # ctx.mint THEN "ConstraintTokenMint"
    ELSE IF MintOf[ctx.royalty_token_account] # ctx.mint THEN "ConstraintTokenMint"
    ELSE IF ctx.extra_account_meta_list # FindProgramAddress(ctx.mint)
         THEN "ConstraintSeeds"
    ELSE "Ok"

TransferHook_try_accounts(ctx) ==
    IF ctx.source_token \notin TokenAccounts THEN "AccountOwnedByWrongProgram"
    ELSE IF ctx.mint \notin Mints THEN "AccountOwnedByWrongProgram"
    ELSE IF ctx.destination_token \notin TokenAccounts
         THEN "AccountOwnedByWrongProgram"
    ELSE IF ctx.royalty_token_account \notin TokenAccounts
         THEN "AccountOwnedByWrongProgram"
    ELSE IF ctx.token_program \notin TokenPrograms THEN "InvalidProgramId"
    ELSE IF OwnerOf[ctx.source_token] # ctx.owner THEN "ConstraintTokenOwner"
    ELSE IF MintOf[ctx.source_token] # ctx.mint THEN "ConstraintTokenMint"
    ELSE IF MintOf[ctx.destination_token] # ctx.mint THEN "ConstraintTokenMint"
    ELSE IF MintOf[ctx.royalty_token_account] # ctx.mint THEN "ConstraintTokenMint"
    ELSE IF ctx.extra_account_meta_list # FindProgramAddress(ctx.mint)
         THEN "ConstraintSeeds"
    ELSE "Ok"

(***************************************************************************)
(* pub fn transfer_hook(ctx, amount), lines 66-100.  The outcome of one    *)
(* run: whether the handler was dispatched to and entered, the split, the  *)
(* sub-transfers issued in order with the result of each, the balances as  *)
(* the run left them and the result returned.                              *)
(***************************************************************************)
Cpi(kind, from, to, amount, result) ==
    [kind |-> kind, from |-> from, to |-> to, amount |-> amount, result |-> result]

Outcome(dispatched, entered, computed, amount, cpis, work, result) ==
    [dispatched |-> dispatched, entered |-> entered, computed |-> computed,
     amount |-> amount,
     royalty_amount |-> IF computed THEN royalty_amount(amount) ELSE U64Zero,
     transfer_amount |-> IF computed THEN transfer_amount(amount) ELSE U64Zero,
     cpis |-> cpis, work |-> work, result |-> result]

\* The handler with its two sub-transfers left open: which leg goes first,
\* what the remainder leg sends and whether the remainder leg's error is
\* returned.  The variants of transfer_hook below fill it in.
hook_variant(bal, ctx, amount, checks, royalty_first, remainder_sends, returns_error) ==
    LET leg(kind) ==
            IF kind = "royalty"
            THEN [kind |-> kind, to |-> ctx.royalty_token_account,
                  amount |-> royalty_amount(amount)]
            ELSE [kind |-> kind, to |-> ctx.destination_token,
                  amount |-> remainder_sends]
        one == leg(IF royalty_first THEN "royalty" ELSE "remainder")
        two == leg(IF royalty_first THEN "remainder" ELSE "royalty")
        first == token_transfer(bal, ctx.token_program, ctx.source_token, one.to, ctx.owner,
                                ctx.owner_is_signer, one.amount)
        cpi1 == Cpi(one.kind, ctx.source_token, one.to, one.amount, first.result)
        second == token_transfer(first.bal, ctx.token_program, ctx.source_token, two.to, ctx.owner,
                                 ctx.owner_is_signer, two.amount)
        cpi2 == Cpi(two.kind, ctx.source_token, two.to, two.amount, second.result)
    IN  IF SplitPanics(amount, checks)
        THEN Outcome(TRUE, TRUE, FALSE, amount, <<>>, bal, "ProgramFailedToComplete")
        ELSE IF first.result # "Ok"
        THEN Outcome(TRUE, TRUE, TRUE, amount, <<cpi1>>, first.bal, first.result)
        ELSE Outcome(TRUE, TRUE, TRUE, amount, <<cpi1, cpi2>>, second.bal,
                     IF returns_error THEN second.result ELSE "Ok")

\* A variant that sends the whole amount, not transfer_amount, on.
transfer_hook_full_amount(bal, ctx, amount, checks) ==
    hook_variant(bal, ctx, amount, checks, TRUE, amount, TRUE)

\* A variant that drops the `?` of the remainder sub-transfer.
transfer_hook_ignore_error(bal, ctx, amount, checks) ==
    hook_variant(bal, ctx, amount, checks, TRUE, transfer_amount(amount), FALSE)

\* A variant that issues the remainder sub-transfer first.
transfer_hook_remainder_first(bal, ctx, amount, checks) ==
    hook_variant(bal, ctx, amount, checks, FALSE, transfer_amount(amount), TRUE)

transfer_hook(bal, ctx, amount, checks) ==
    IF SplitPanics(amount, checks)
    THEN Outcome(TRUE, TRUE, FALSE, amount, <<>>, bal, "ProgramFailedToComplete")
    ELSE LET royalty == token_transfer(bal, ctx.token_program, ctx.source_token,
                            ctx.royalty_token_account, ctx.owner,
                            ctx.owner_is_signer, royalty_amount(amount))
             cpi1 == Cpi("royalty", ctx.source_token, ctx.royalty_token_account,
                         royalty_amount(amount), royalty.result)
         IN  IF royalty.result # "Ok"
             THEN Outcome(TRUE, TRUE, TRUE, amount, <<cpi1>>, royalty.bal,
                          royalty.result)
             ELSE LET remainder == token_transfer(royalty.bal, ctx.token_program, ctx.source_token,
                                       ctx.destination_token, ctx.owner,
                                       ctx.owner_is_signer, transfer_amount(amount))
                      cpi2 == Cpi("remainder", ctx.source_token,
                                  ctx.destination_token, transfer_amount(amount),
                                  remainder.result)
                  IN  Outcome(TRUE, TRUE, TRUE, amount, <<cpi1, cpi2>>,
                              remainder.bal, remainder.result)

(***************************************************************************)
(* __private::__global::transfer_hook(program_id, accounts, ix_data), the  *)
(* entry the #[program] module generates for transfer_hook and line 117    *)
(* calls: decode the u64 argument, validate the accounts, run the handler. *)
(***************************************************************************)
global_transfer_hook(bal, ctx, ix_data, checks) ==
    IF Len(ix_data) < AMOUNT_LENGTH
    THEN Outcome(TRUE, FALSE, FALSE, U64Zero, <<>>, bal,
                 "InstructionDidNotDeserialize")
    ELSE IF TransferHook_try_accounts(ctx) # "Ok"
    THEN Outcome(TRUE, FALSE, FALSE, FromLeBytes(Take(ix_data, AMOUNT_LENGTH)),
                 <<>>, bal, TransferHook_try_accounts(ctx))
    ELSE transfer_hook(bal, ctx, FromLeBytes(Take(ix_data, AMOUNT_LENGTH)), checks)

(***************************************************************************)
(* pub fn fallback(program_id, accounts, data), lines 103-121.             *)
(***************************************************************************)
\* A variant of fallback without the `_ =>` arm: every decoded variant is
\* dispatched.
fallback_dispatch_all(bal, ctx, data, checks) ==
    LET instruction == Unpack(data)
    IN  IF instruction.variant = "Err"
        THEN Outcome(FALSE, FALSE, FALSE, U64Zero, <<>>, bal, instruction.error)
        ELSE global_transfer_hook(bal, ctx, ToLeBytes(instruction.amount), checks)

fallback(bal, ctx, data, checks) ==
    LET instruction == Unpack(data)
    IN  IF instruction.variant = "Err"
        THEN Outcome(FALSE, FALSE, FALSE, U64Zero, <<>>, bal, instruction.error)
        ELSE IF instruction.variant = "Execute"
        THEN global_transfer_hook(bal, ctx, ToLeBytes(instruction.amount), checks)
        ELSE Outcome(FALSE, FALSE, FALSE, U64Zero, <<>>, bal,
                     "InvalidInstructionData")

\* One instruction is all or nothing: the balances an invocation leaves
\* are kept when it returns Ok(()) and discarded when it returns an error.
Settle(before, out) == IF out.result = "Ok" THEN out.work ELSE before

(***************************************************************************)
(* The metadata provisioner: #[derive(Accounts)] struct                    *)
(* InitializeExtraAccountMetaList, lines 124-140, and pub fn               *)
(* initialize_extra_account_meta_list, lines 23-64.                        *)
(***************************************************************************)
\* An account of the system: lamports, owning program, data bytes.
Unallocated == [lamports |-> 0, owner |-> "system", data |-> <<>>]

AllInitContexts ==
    [payer : Payers,
     payer_is_signer : BOOLEAN,
     payer_is_writable : BOOLEAN,
     extra_account_meta_list : MetaAddresses,
     extra_account_meta_list_is_writable : BOOLEAN,
     mint : MintAccounts,
     token_program : Programs,
     associated_token_program : Programs,
     system_program : Programs]

\* The generated try_accounts: the accounts are read in the order of the
\* struct's fields (Signer, AccountInfo, InterfaceAccount<Mint>,
\* Interface<TokenInterface>, Program<AssociatedToken>, Program<System>),
\* then the constraints are checked in that order (mut on payer; mut, then
\* seeds, on extra_account_meta_list).  A context passes all six accounts.
InitializeExtraAccountMetaList_try_accounts(ictx) ==
    IF ~ictx.payer_is_signer THEN "AccountNotSigner"
    ELSE IF ictx.mint \notin Mints THEN "AccountOwnedByWrongProgram"
    ELSE IF ictx.token_program \notin TokenPrograms THEN "InvalidProgramId"
    ELSE IF ictx.associated_token_program # "associated_token" THEN "InvalidProgramId"
    ELSE IF ictx.system_program # "system" THEN "InvalidProgramId"
    ELSE IF ~ictx.payer_is_writable THEN "ConstraintMut"
    ELSE IF ~ictx.extra_account_meta_list_is_writable THEN "ConstraintMut"
    ELSE IF ictx.extra_account_meta_list # FindProgramAddress(ictx.mint)
         THEN "ConstraintSeeds"
    ELSE "Ok"

\* ExtraAccountMetaList::size_of(n): an 8-byte type discriminator, a 4-byte
\* length, then the list (a 4-byte count and 35 bytes a meta).
TLV_HEADER_LENGTH == 12
ExtraAccountMetaList_size_of(n) ==
    TLV_HEADER_LENGTH + LIST_COUNT_LENGTH + n * EXTRA_ACCOUNT_META_LENGTH

\* Rent::get()?.minimum_balance(size): the rent-exempt minimum.
ACCOUNT_STORAGE_OVERHEAD == 128
LAMPORTS_PER_BYTE_YEAR == 3480
EXEMPTION_YEARS == 2
Rent_minimum_balance(size) ==
    (ACCOUNT_STORAGE_OVERHEAD + size) * LAMPORTS_PER_BYTE_YEAR * EXEMPTION_YEARS

Le32(n) == <<n % 256, (n \div 256) % 256, (n \div (256 * 256)) % 256, 0>>

\* ExtraAccountMetaList::init::<ExecuteInstruction>(data, account_metas)
\* for an empty account_metas: the bytes it leaves in the account.
ExtraAccountMetaList_init(account_metas) ==
    EXECUTE_DISCRIMINATOR
        \o Le32(LIST_COUNT_LENGTH + Len(account_metas) * EXTRA_ACCOUNT_META_LENGTH)
        \o Le32(Len(account_metas))

\* system_program::create_account(from, to, lamports, space, owner), signed
\* with the seeds of the mint's derived address: "Ok" or the error.  The
\* system program refuses a `to` that holds lamports, a `to` the seeds do
\* not sign for, a `to` that holds data or has an owner, a `from` that
\* holds data or is not its own, and a `from` with too few lamports.
\* A variant of create_account that does not refuse an address in use.
create_account_no_in_use_check(accounts, funds, from, to, mint, lamports) ==
    IF to # FindProgramAddress(mint) THEN "MissingRequiredSignature"
    ELSE IF ~PayerIsSystemAccount[from] THEN "InvalidArgument"
    ELSE IF funds[from] < lamports THEN "ResultWithNegativeLamports"
    ELSE "Ok"

create_account(accounts, funds, from, to, mint, lamports) ==
    IF accounts[to].lamports > 0 THEN "AccountAlreadyInUse"
    ELSE IF to # FindProgramAddress(mint) THEN "MissingRequiredSignature"
    ELSE IF accounts[to].data # <<>> \/ accounts[to].owner # "system"
         THEN "AccountAlreadyInUse"
    ELSE IF ~PayerIsSystemAccount[from] THEN "InvalidArgument"
    ELSE IF funds[from] < lamports THEN "ResultWithNegativeLamports"
    ELSE "Ok"

Provisioned(accounts, funds, created, result) ==
    [accounts |-> accounts, funds |-> funds, created |-> created, result |-> result]

initialize_extra_account_meta_list(accounts, funds, ictx) ==
    LET account_metas == <<>>
        account_size == ExtraAccountMetaList_size_of(Len(account_metas))
        lamports == Rent_minimum_balance(account_size)
        to == ictx.extra_account_meta_list
        created == create_account(accounts, funds, ictx.payer, to, ictx.mint, lamports)
    IN  IF InitializeExtraAccountMetaList_try_accounts(ictx) # "Ok"
        THEN Provisioned(accounts, funds, FALSE,
                         InitializeExtraAccountMetaList_try_accounts(ictx))
        ELSE IF created # "Ok"
        THEN Provisioned(accounts, funds, FALSE, created)
        ELSE Provisioned(
                 [accounts EXCEPT ![to] =
                     [lamports |-> lamports, owner |-> "transfer_hook",
                      data |-> ExtraAccountMetaList_init(account_metas)]],
                 [funds EXCEPT ![ictx.payer] = @ - lamports],
                 TRUE, "Ok")

(***************************************************************************)
(* The inputs tried.                                                       *)
(***************************************************************************)
AddSmall(a, n) == AddU64(a, FromNat(n)).value
SubSmall(a, n) == SubU64(a, FromNat(n)).value

Amounts ==
    {FromNat(n) : n \in 0 .. MaxSmallAmount}
        \cup {FromNat(100), FromNat(2000)}
        \cup {AddSmall(Threshold, k) : k \in 0 .. MaxOver}
        \cup {U64Max}

\* The accounts of an invocation that fails before it reads them.
UnreadContext ==
    [source_token |-> "a1", mint |-> "M1", destination_token |-> "a2",
     royalty_token_account |-> "a3", owner |-> "alice", owner_is_signer |-> TRUE,
     extra_account_meta_list |-> FindProgramAddress("M1"),
     token_program |-> "token"]

UnreadInitContext ==
    [payer |-> "payer1", payer_is_signer |-> TRUE, payer_is_writable |-> TRUE,
     extra_account_meta_list |-> FindProgramAddress("M1"),
     extra_account_meta_list_is_writable |-> TRUE,
     mint |-> "M1", token_program |-> "token",
     associated_token_program |-> "associated_token",
     system_program |-> "system"]

\* The places in which the accounts of an initialisation differ from
\* UnreadInitContext, which passes validation.
InitReplaced(ictx) ==
    Cardinality({f \in DOMAIN ictx : ictx[f] # UnreadInitContext[f]})

\* The accounts tried: all that pass validation, and those that fail it
\* within MaxFaults replacements of UnreadInitContext (a set of all, which
\* is enumerated once).
InitContexts ==
    {ictx : ictx \in
        {c \in AllInitContexts :
            \/ InitializeExtraAccountMetaList_try_accounts(c) = "Ok"
            \/ InitReplaced(c) <= MaxFaults}}

\* The places in which a context differs from UnreadContext, which passes
\* validation.
Replaced(ctx) == Cardinality({f \in DOMAIN ctx : ctx[f] # UnreadContext[f]})

\* The contexts tried: every one that passes validation, and those that
\* fail it within MaxFaults replacements of UnreadContext (a set of all,
\* which is enumerated once).
Contexts ==
    {ctx : ctx \in
        {c \in AllContexts :
            TransferHook_try_accounts(c) = "Ok" \/ Replaced(c) <= MaxFaults}}

\* The amounts that data cut short carries.
PayloadAmounts == {U64Zero, FromNat(1), U64Max}

\* Raw data: a prefix and the bytes of an amount, whole for every amount,
\* and for some cut at every length up to MaxDataLen (past 16 bytes, a
\* trailing byte follows the amount).
DataWith(prefixes) ==
    {d \o ToLeBytes(a) : d \in prefixes, a \in Amounts}
        \cup {Take(d \o ToLeBytes(a) \o <<0>>, n) :
                d \in prefixes, a \in PayloadAmounts, n \in 0 .. MaxDataLen}

FallbackData ==
    {data \in DataWith({EXECUTE_DISCRIMINATOR, INITIALIZE_LIST_DISCRIMINATOR,
                        UPDATE_LIST_DISCRIMINATOR, UNKNOWN_DISCRIMINATOR}) :
        ~StartsWith(data, TRANSFER_HOOK_SELECTOR)
        /\ ~StartsWith(data, INITIALIZE_SELECTOR)}

NativeData ==
    {data \in DataWith({TRANSFER_HOOK_SELECTOR}) :
        StartsWith(data, TRANSFER_HOOK_SELECTOR)}

(***************************************************************************)
(* The state: the token balances, the accounts at the metadata addresses,  *)
(* the payers' lamports, the number of metadata records created for each   *)
(* mint, whether the build checks arithmetic overflow, and the last        *)
(* invocation with what it did.                                            *)
(***************************************************************************)
VARIABLES balance, accounts, funds, records, overflow_checks, calls, last

vars == <<balance, accounts, funds, records, overflow_checks, calls, last>>

Invocation(op, data, ctx, ictx, out, result) ==
    [op |-> op, data |-> data, ctx |-> ctx, ictx |-> ictx, out |-> out,
     result |-> result, pre |-> balance, pre_accounts |-> accounts,
     pre_funds |-> funds, pre_records |-> records]

NoOutcome(result) == Outcome(FALSE, FALSE, FALSE, U64Zero, <<>>, balance, result)

\* No invocation is under way.
Idle == Invocation("none", <<>>, UnreadContext, UnreadInitContext, NoOutcome(""), "")

InitialFunds ==
    [p \in Payers |->
        IF p = "payer2"
        THEN Rent_minimum_balance(ExtraAccountMetaList_size_of(0)) - 1
        ELSE 2 * Rent_minimum_balance(ExtraAccountMetaList_size_of(0))]

Init ==
    /\ balance = InitialBalance
    /\ accounts \in {[a \in MetaAddresses |->
                        IF a = FindProgramAddress("M2") /\ prefunded
                        THEN [Unallocated EXCEPT !.lamports = 1]
                        ELSE Unallocated] : prefunded \in BOOLEAN}
    /\ funds = InitialFunds
    /\ records = [m \in Mints |-> 0]
    /\ overflow_checks \in BOOLEAN
    /\ calls = 0
    /\ last = Idle

\* The contexts an invocation is tried with: one when it fails before it
\* reads its accounts or when its data is followed by a trailing byte;
\* otherwise every context that passes validation under a signing owner
\* and the token program of the accounts, with every amount, and the
\* others (validation failed, an owner that has not signed, another token
\* program) with one amount.
ContextsFor(reads, data, amount) ==
    IF ~reads \/ Len(data) # DISCRIMINATOR_LENGTH + AMOUNT_LENGTH
    THEN {UnreadContext}
    ELSE {ctx \in Contexts :
             \/ /\ TransferHook_try_accounts(ctx) = "Ok"
                /\ ctx.owner_is_signer
                /\ ctx.token_program = "token"
             \/ amount = FromNat(100)}

\* One invocation through the entry of initialize_extra_account_meta_list.
InvokeInitialize(ictx) ==
    LET done == initialize_extra_account_meta_list(accounts, funds, ictx)
    IN  /\ accounts' = done.accounts
        /\ funds' = done.funds
        /\ records' = IF done.created
                      THEN [records EXCEPT ![ictx.mint] = @ + 1]
                      ELSE records
        /\ last' = Invocation("initialize", INITIALIZE_SELECTOR, UnreadContext,
                              ictx, NoOutcome(done.result), done.result)
        /\ calls' = calls + 1
        /\ UNCHANGED <<balance, overflow_checks>>

\* One invocation through the generated entry of transfer_hook, which gets
\* the data that follows the selector.
InvokeNative(data, ctx) ==
    LET out == global_transfer_hook(balance, ctx,
                   Drop(data, DISCRIMINATOR_LENGTH), overflow_checks)
    IN  /\ balance' = Settle(balance, out)
        /\ last' = Invocation("transfer_hook", data, ctx, UnreadInitContext,
                              out, out.result)
        /\ calls' = calls + 1
        /\ UNCHANGED <<accounts, funds, records, overflow_checks>>

\* One invocation through fallback.
InvokeFallback(data, ctx) ==
    LET out == fallback(balance, ctx, data, overflow_checks)
    IN  /\ balance' = Settle(balance, out)
        /\ last' = Invocation("fallback", data, ctx, UnreadInitContext,
                              out, out.result)
        /\ calls' = calls + 1
        /\ UNCHANGED <<accounts, funds, records, overflow_checks>>

\* The program's entry matched the selector of
\* initialize_extra_account_meta_list.
InitializeExtraAccountMetaList ==
    /\ last.op = "none"
    /\ calls < MaxCalls
    /\ \E ictx \in InitContexts : InvokeInitialize(ictx)

\* The program's entry matched the selector of transfer_hook and called
\* its generated entry with the rest of the data.
NativeTransferHook ==
    /\ last.op = "none"
    /\ calls < MaxCalls
    /\ \E data \in NativeData :
         \E ctx \in ContextsFor(Len(data) >= DISCRIMINATOR_LENGTH + AMOUNT_LENGTH,
                                data,
                                FromLeBytes(Drop(data, DISCRIMINATOR_LENGTH)
                                            \o ToLeBytes(U64Zero))) :
            InvokeNative(data, ctx)

\* The program's entry matched no selector and called fallback.
Fallback ==
    /\ last.op = "none"
    /\ calls < MaxCalls
    /\ \E data \in FallbackData :
         \E ctx \in ContextsFor(Unpack(data).variant = "Execute", data,
                                Unpack(data).amount) :
            InvokeFallback(data, ctx)

\* The invocation has returned to its caller: the next one may start.
Return ==
    /\ last.op # "none"
    /\ last' = Idle
    /\ UNCHANGED <<balance, accounts, funds, records, overflow_checks, calls>>

Next == InitializeExtraAccountMetaList \/ Fallback \/ NativeTransferHook \/ Return

Spec == Init /\ [][Next]_vars

(***************************************************************************)
(* Sequences of invocations: the same entries, invoked one after another   *)
(* up to MaxSeqCalls times, with fewer inputs each: transfers in both      *)
(* directions, with two roles on one account, of the other mint, by an     *)
(* owner that has not signed, to an account of another mint.               *)
(***************************************************************************)
SeqAmounts == {FromNat(100), FromNat(2000)}

SeqContexts ==
    {UnreadContext,
     [UnreadContext EXCEPT !.source_token = "a2", !.destination_token = "a1",
                           !.owner = "bob"],
     [UnreadContext EXCEPT !.royalty_token_account = "a2"],
     [UnreadContext EXCEPT !.owner_is_signer = FALSE],
     [UnreadContext EXCEPT !.destination_token = "b1"],
     [UnreadContext EXCEPT !.token_program = "token_2022"],
     [UnreadContext EXCEPT !.token_program = "system"],
     [UnreadContext EXCEPT !.mint = "wallet"],
     [UnreadContext EXCEPT !.source_token = "b1", !.destination_token = "b1",
                           !.royalty_token_account = "b1", !.mint = "M2",
                           !.owner = "bob",
                           !.extra_account_meta_list = FindProgramAddress("M2")]}

SeqData(prefix) == {prefix \o ToLeBytes(a) : a \in SeqAmounts}

SeqInitialize ==
    /\ last.op = "none"
    /\ calls < MaxSeqCalls
    /\ \E ictx \in InitContexts : InvokeInitialize(ictx)

SeqNativeTransferHook ==
    /\ last.op = "none"
    /\ calls < MaxSeqCalls
    /\ \E data \in SeqData(TRANSFER_HOOK_SELECTOR) :
         \E ctx \in SeqContexts : InvokeNative(data, ctx)

SeqFallback ==
    /\ last.op = "none"
    /\ calls < MaxSeqCalls
    /\ \E data \in SeqData(EXECUTE_DISCRIMINATOR) \cup {UNKNOWN_DISCRIMINATOR} :
         \E ctx \in (IF Unpack(data).variant = "Execute"
                     THEN SeqContexts ELSE {UnreadContext}) :
            InvokeFallback(data, ctx)

SeqNext == SeqInitialize \/ SeqFallback \/ SeqNativeTransferHook \/ Return

SeqSpec == Init /\ [][SeqNext]_vars

(***************************************************************************)
(* The split alone, on many more amounts: each behaviour draws an amount   *)
(* and a build, and ComputeSplit applies lines 69-71 to it.                *)
(***************************************************************************)
SplitAmounts ==
    {FromNat(n) : n \in 0 .. MaxSplitAmount}
        \cup {SubSmall(Threshold, k) : k \in 0 .. MaxSplitBand}
        \cup {AddSmall(Threshold, k) : k \in 0 .. MaxSplitBand}
        \cup {SubSmall(U64Max, k) : k \in 0 .. MaxSplitBand}

SplitInit ==
    /\ balance = InitialBalance
    /\ accounts = [a \in MetaAddresses |-> Unallocated]
    /\ funds = InitialFunds
    /\ records = [m \in Mints |-> 0]
    /\ overflow_checks \in BOOLEAN
    /\ calls = 0
    /\ \E amount \in SplitAmounts :
         last = [Idle EXCEPT !.op = "input", !.out.amount = amount]

ComputeSplit ==
    /\ last.op = "input"
    /\ last' = [last EXCEPT
                  !.op = "split",
                  !.out = IF SplitPanics(last.out.amount, overflow_checks)
                          THEN Outcome(TRUE, TRUE, FALSE, last.out.amount, <<>>,
                                       balance, "ProgramFailedToComplete")
                          ELSE Outcome(TRUE, TRUE, TRUE, last.out.amount, <<>>,
                                       balance, "Ok")]
    /\ UNCHANGED <<balance, accounts, funds, records, overflow_checks, calls>>

SplitNext == ComputeSplit

SplitSpec == SplitInit /\ [][SplitNext]_vars

(***************************************************************************)
(* The properties.                                                         *)
(***************************************************************************)
\* The last invocation reached the hook, by either entry of the program.
HookCall == last.op \in {"transfer_hook", "fallback"}
\* The last invocation ran the handler's body and returned Ok(()).
Succeeded == HookCall /\ last.out.entered /\ last.result = "Ok"
\* The split is there to look at: the handler (or ComputeSplit) computed it.
SplitComputed == last.out.computed

\* a + b = c with no carry, a - b = c with no borrow.
SumIs(a, b, c) == AddU64(a, b) = [value |-> c, carry |-> 0]
DifferenceIs(a, b, c) == SubU64(a, b) = [value |-> c, borrow |-> 0]

\* r is floor(5 * amount / 100) for an amount whose product with 5 fits a
\* u64: 100 * r <= 5 * amount < 100 * r + 100, with nothing wrapping.
IsFloorOfFivePercent(amount, r) ==
    /\ MulSmall(amount, 5).carry = 0
    /\ MulSmall(r, 100).carry = 0
    /\ LeqU64(MulSmall(r, 100).value, MulSmall(amount, 5).value)
    /\ LessU64(SubU64(MulSmall(amount, 5).value, MulSmall(r, 100).value).value,
               FromNat(100))

\* C1: for every amount whose product with 5 does not exceed the u64
\* maximum, the computed royalty_amount is floor(amount * 5 / 100), the
\* computed transfer_amount is amount - royalty_amount, and the two add up
\* to amount; 100 splits into 5 and 95, 1 into 0 and 1, 0 into 0 and 0.
C1_SplitIsFloor ==
    (SplitComputed /\ LeqU64(last.out.amount, Threshold)) =>
        /\ IsFloorOfFivePercent(last.out.amount, last.out.royalty_amount)
        /\ DifferenceIs(last.out.amount, last.out.royalty_amount,
                        last.out.transfer_amount)
        /\ SumIs(last.out.royalty_amount, last.out.transfer_amount, last.out.amount)
        /\ (last.out.amount = FromNat(100) =>
                /\ last.out.royalty_amount = FromNat(5)
                /\ last.out.transfer_amount = FromNat(95))
        /\ (last.out.amount = FromNat(1) =>
                /\ last.out.royalty_amount = FromNat(0)
                /\ last.out.transfer_amount = FromNat(1))
        /\ (last.out.amount = FromNat(0) =>
                /\ last.out.royalty_amount = FromNat(0)
                /\ last.out.transfer_amount = FromNat(0))

\* The split of 100 was computed: the royalty is 5, the remainder 95.
C1_Witness ==
    /\ last.op = "split"
    /\ SplitComputed
    /\ last.out.amount = FromNat(100)
    /\ last.out.royalty_amount = FromNat(5)
    /\ last.out.transfer_amount = FromNat(95)

\* C8: for every u64 amount, also one whose product with 5 wraps modulo
\* 2^64, a computed split has royalty_amount <= amount and
\* royalty_amount + transfer_amount = amount.
C8_SplitAddsUp ==
    SplitComputed =>
        /\ LeqU64(last.out.royalty_amount, last.out.amount)
        /\ SumIs(last.out.royalty_amount, last.out.transfer_amount, last.out.amount)

\* The split of the u64 maximum was computed by a build that wraps: the
\* product wrapped and the royalty is floor((2^64 - 5) / 100).
C8_Witness ==
    /\ last.op = "split"
    /\ SplitComputed
    /\ ~overflow_checks
    /\ last.out.amount = U64Max
    /\ MulSmall(last.out.amount, 5).carry # 0
    /\ last.out.royalty_amount = <<36700, 62914, 23592, 655>>

\* The balance of an account went down, or up, by exactly n over the last
\* invocation.
DecreasedBy(account, n) == DifferenceIs(last.pre[account], n, balance[account])
IncreasedBy(account, n) == SumIs(last.pre[account], n, balance[account])

PairwiseDistinct(ctx) ==
    /\ ctx.source_token # ctx.destination_token
    /\ ctx.source_token # ctx.royalty_token_account
    /\ ctx.destination_token # ctx.royalty_token_account

\* What moving n from one account to another makes of balances: nothing
\* when the two are the same account.
Moved(bal, from, to, n) ==
    IF from = to THEN bal
    ELSE [bal EXCEPT ![from] = SubU64(bal[from], n).value,
                     ![to] = AddU64(bal[to], n).value]

\* The statement of C2 as it was made: after every successful invocation,
\* whatever accounts passed validation, the source is down by exactly
\* amount, the royalty recipient up by exactly royalty_amount and the
\* destination up by exactly transfer_amount.
C2_AsClaimed ==
    Succeeded =>
        /\ DecreasedBy(last.ctx.source_token, last.out.amount)
        /\ IncreasedBy(last.ctx.royalty_token_account, last.out.royalty_amount)
        /\ IncreasedBy(last.ctx.destination_token, last.out.transfer_amount)

\* C2, amended: after every successful invocation whose source, destination
\* and royalty recipient are three different accounts, the source is down
\* by exactly amount, the royalty recipient up by exactly royalty_amount
\* and the destination up by exactly transfer_amount; when two roles fall
\* on one account, the balances are those the two sub-transfers leave, a
\* transfer from an account to itself changing nothing; no other account
\* changes.
C2_ExactDeltas ==
    Succeeded =>
        /\ PairwiseDistinct(last.ctx) =>
              /\ DecreasedBy(last.ctx.source_token, last.out.amount)
              /\ IncreasedBy(last.ctx.royalty_token_account, last.out.royalty_amount)
              /\ IncreasedBy(last.ctx.destination_token, last.out.transfer_amount)
        /\ balance = Moved(Moved(last.pre, last.ctx.source_token,
                                 last.ctx.royalty_token_account,
                                 last.out.royalty_amount),
                           last.ctx.source_token, last.ctx.destination_token,
                           last.out.transfer_amount)
        /\ \A a \in TokenAccounts :
              a \notin {last.ctx.source_token, last.ctx.destination_token,
                        last.ctx.royalty_token_account}
                  => balance[a] = last.pre[a]

\* 100 went from a2 to a1 with the royalty to a3: a2 is down by 100, a3 up
\* by 5, a1 up by 95.
C2_Witness ==
    /\ Succeeded
    /\ last.ctx.source_token = "a2"
    /\ last.ctx.destination_token = "a1"
    /\ last.ctx.royalty_token_account = "a3"
    /\ last.out.amount = FromNat(100)
    /\ DecreasedBy("a2", FromNat(100))
    /\ IncreasedBy("a3", FromNat(5))
    /\ IncreasedBy("a1", FromNat(95))

\* C3: an invocation of the hook that fails, at whichever step, leaves
\* every balance as it was before it, and balances differ from those
\* before the invocation only when both sub-transfers succeeded: no state
\* is reached in which only one of the two has taken effect.
C3_AllOrNothing ==
    HookCall =>
        /\ last.result # "Ok" => balance = last.pre
        /\ balance # last.pre =>
              /\ Len(last.out.cpis) = 2
              /\ last.out.cpis[1].result = "Ok"
              /\ last.out.cpis[2].result = "Ok"

\* The source covered royalty_amount but not amount: the royalty
\* sub-transfer was applied, the remainder sub-transfer failed, and the
\* balances are those from before the invocation.
C3_Witness ==
    /\ HookCall
    /\ last.result = "InsufficientFunds"
    /\ Len(last.out.cpis) = 2
    /\ last.out.cpis[1].result = "Ok"
    /\ last.out.cpis[2].result = "InsufficientFunds"
    /\ LeqU64(last.out.royalty_amount, last.pre[last.ctx.source_token])
    /\ LessU64(last.pre[last.ctx.source_token], last.out.amount)
    /\ last.out.work # last.pre
    /\ balance = last.pre

\* C6: when the source, the destination or the royalty recipient records a
\* mint other than the one supplied, the invocation fails in account
\* validation, before the handler's body and before either sub-transfer,
\* and no balance changes.
C6_MintMismatchRejected ==
    (/\ HookCall
     /\ last.out.dispatched
     /\ last.result # "InstructionDidNotDeserialize"
     /\ \E a \in {last.ctx.source_token, last.ctx.destination_token,
                   last.ctx.royalty_token_account} \cap TokenAccounts :
            MintOf[a] # last.ctx.mint)
    =>  /\ last.result \in {"AccountOwnedByWrongProgram", "InvalidProgramId",
                           "ConstraintTokenOwner", "ConstraintTokenMint"}
        /\ ~last.out.entered
        /\ last.out.cpis = <<>>
        /\ balance = last.pre

\* The destination was an account of another mint: ConstraintTokenMint,
\* and no sub-transfer.
C6_Witness ==
    /\ HookCall
    /\ last.out.dispatched
    /\ last.result = "ConstraintTokenMint"
    /\ MintOf[last.ctx.source_token] = last.ctx.mint
    /\ MintOf[last.ctx.destination_token] # last.ctx.mint
    /\ last.out.cpis = <<>>
    /\ balance = last.pre

\* C7, as it was made: the handler's body runs only after fallback decoded
\* Execute{amount} in the same invocation; no raw instruction reaches it
\* through the program's own selector dispatch.
C7_OnlyThroughFallback ==
    (HookCall /\ last.out.entered) =>
        /\ last.op = "fallback"
        /\ Unpack(last.data).variant = "Execute"

\* C7, amended: the handler's body runs only in an invocation whose raw
\* data either was decoded by fallback as Execute{amount}, or began with
\* transfer_hook's own selector followed by the 8 bytes of the amount and
\* was matched to transfer_hook by the program's selector dispatch; in both
\* the handler runs with the amount the data carries, after the accounts
\* passed validation, and no initialize_extra_account_meta_list invocation
\* runs it.
C7_ThroughFallbackOrSelector ==
    /\ last.out.entered =>
          /\ HookCall
          /\ Len(last.data) >= 16
          /\ last.out.amount = FromLeBytes(SubSeq(last.data, 9, 16))
          /\ \/ /\ last.op = "fallback"
                /\ SubSeq(last.data, 1, 8) = <<105, 37, 101, 197, 75, 251, 102, 26>>
                /\ last.out.dispatched
             \/ /\ last.op = "transfer_hook"
                /\ SubSeq(last.data, 1, 8) = <<220, 57, 220, 152, 126, 125, 97, 168>>
          /\ last.ctx.token_program \in {"token", "token_2022"}
          /\ last.ctx.mint \in Mints
          /\ {last.ctx.source_token, last.ctx.destination_token,
              last.ctx.royalty_token_account} \subseteq TokenAccounts
          /\ OwnerOf[last.ctx.source_token] = last.ctx.owner
          /\ \A a \in {last.ctx.source_token, last.ctx.destination_token,
                        last.ctx.royalty_token_account} :
                MintOf[a] = last.ctx.mint
    /\ last.op \in {"initialize", "none"} => ~last.out.entered

\* Raw data that begins with transfer_hook's own selector reached the
\* handler without fallback, and the handler moved tokens.
C7_Witness ==
    /\ last.op = "transfer_hook"
    /\ SubSeq(last.data, 1, 8) = <<220, 57, 220, 152, 126, 125, 97, 168>>
    /\ last.out.entered
    /\ last.result = "Ok"
    /\ balance # last.pre

\* C9: the royalty sub-transfer (source to royalty recipient,
\* royalty_amount) is issued first, the remainder sub-transfer (source to
\* destination, transfer_amount) second and only when the first succeeded;
\* both are issued also when their amount is 0; nothing is issued when the
\* handler's body did not run or panicked on the split.
C9_RoyaltyThenRemainder ==
    HookCall =>
        /\ ~(last.out.entered /\ last.out.computed) => last.out.cpis = <<>>
        /\ (last.out.entered /\ last.out.computed) =>
              /\ Len(last.out.cpis) \in {1, 2}
              /\ last.out.cpis[1].kind = "royalty"
              /\ last.out.cpis[1].from = last.ctx.source_token
              /\ last.out.cpis[1].to = last.ctx.royalty_token_account
              /\ last.out.cpis[1].amount = last.out.royalty_amount
              /\ Len(last.out.cpis) = 2 <=> last.out.cpis[1].result = "Ok"
              /\ Len(last.out.cpis) = 2 =>
                    /\ last.out.cpis[2].kind = "remainder"
                    /\ last.out.cpis[2].from = last.ctx.source_token
                    /\ last.out.cpis[2].to = last.ctx.destination_token
                    /\ last.out.cpis[2].amount = last.out.transfer_amount

\* An amount of 1 between different accounts: a royalty sub-transfer of 0
\* was issued and succeeded, then the remainder sub-transfer of 1.
C9_Witness ==
    /\ Succeeded
    /\ last.out.amount = FromNat(1)
    /\ last.ctx.source_token # last.ctx.destination_token
    /\ Len(last.out.cpis) = 2
    /\ last.out.cpis[1].kind = "royalty"
    /\ last.out.cpis[1].amount = U64Zero
    /\ last.out.cpis[1].result = "Ok"
    /\ last.out.cpis[2].kind = "remainder"
    /\ last.out.cpis[2].amount = FromNat(1)
    /\ balance # last.pre

\* The raw data of a fallback call by its shape.
TooShort(data) == Len(data) < 8
Discriminator(data) == Take(data, 8)
TruncatedExecute(data) ==
    /\ ~TooShort(data)
    /\ Discriminator(data) = <<105, 37, 101, 197, 75, 251, 102, 26>>
    /\ Len(data) < 16
WholeExecute(data) ==
    /\ Len(data) >= 16
    /\ Discriminator(data) = <<105, 37, 101, 197, 75, 251, 102, 26>>
ListInstruction(data) ==
    /\ ~TooShort(data)
    /\ Discriminator(data) \in {<<43, 34, 13, 49, 167, 88, 235, 235>>,
                                <<157, 105, 42, 146, 102, 85, 241, 174>>}
ListDecodeErrors ==
    {"PodSliceError::BufferTooSmall", "PodSliceError::BufferTooLarge",
     "ProgramFailedToComplete"}

\* The statement of C4 as it was made: a fallback call whose data does not
\* unpack to Execute returns invalid-instruction-data, does not reach the
\* handler and changes no balance; only Execute reaches the handler.
C4_AsClaimed ==
    last.op = "fallback" =>
        /\ ~WholeExecute(last.data) =>
              /\ last.result = "InvalidInstructionData"
              /\ ~last.out.dispatched
              /\ balance = last.pre
        /\ last.out.dispatched => WholeExecute(last.data)

\* C4, amended: a fallback call whose data does not unpack to Execute
\* returns an error, does not reach the handler and changes no balance.
\* The error is invalid-instruction-data when the data is shorter than a
\* discriminator, carries an unknown discriminator, carries the Execute
\* discriminator with fewer than 8 payload bytes, or unpacks to another
\* variant than Execute; it is the list decoder's own error when the data
\* carries a list instruction's discriminator and a list that does not
\* decode.  Only data that unpacks to Execute{amount} reaches the handler,
\* with that amount.
C4_RejectedWithoutDispatch ==
    last.op = "fallback" =>
        /\ ~WholeExecute(last.data) =>
              /\ last.result # "Ok"
              /\ ~last.out.dispatched
              /\ ~last.out.entered
              /\ last.out.cpis = <<>>
              /\ balance = last.pre
        /\ (TooShort(last.data) \/ TruncatedExecute(last.data))
              => last.result = "InvalidInstructionData"
        /\ (~TooShort(last.data) /\ ~ListInstruction(last.data)
                /\ ~WholeExecute(last.data))
              => last.result = "InvalidInstructionData"
        /\ (ListInstruction(last.data) /\ Unpack(last.data).variant # "Err")
              => last.result = "InvalidInstructionData"
        /\ (ListInstruction(last.data) /\ Unpack(last.data).variant = "Err")
              => last.result \in ListDecodeErrors
        /\ last.out.dispatched <=> WholeExecute(last.data)
        /\ last.out.dispatched =>
              last.out.amount = FromLeBytes(SubSeq(last.data, 9, 16))

\* The Execute discriminator came with 7 payload bytes: the call returned
\* invalid-instruction-data and the handler was not reached.
C4_Witness ==
    /\ last.op = "fallback"
    /\ TruncatedExecute(last.data)
    /\ Len(last.data) = 15
    /\ last.result = "InvalidInstructionData"
    /\ ~last.out.dispatched
    /\ balance = last.pre

\* The metadata record of a mint: the account at the mint's derived
\* address, owned by the program, holding the encoding of an empty list.
RecordExists(accts, mint) ==
    /\ accts[FindProgramAddress(mint)].owner = "transfer_hook"
    /\ accts[FindProgramAddress(mint)].data
          = <<105, 37, 101, 197, 75, 251, 102, 26, 4, 0, 0, 0, 0, 0, 0, 0>>

RentExemptMinimum == Rent_minimum_balance(ExtraAccountMetaList_size_of(0))

\* The accounts of a call are those the InitializeExtraAccountMetaList
\* struct asks for: a signing, writable payer; the writable account at the
\* address derived from the mint; a mint of a token program; the token,
\* associated-token and system programs.
PassesValidation(ictx) ==
    /\ ictx.payer_is_signer
    /\ ictx.payer_is_writable
    /\ ictx.extra_account_meta_list_is_writable
    /\ ictx.mint \in Mints
    /\ ictx.extra_account_meta_list = <<"extra-account-metas", ictx.mint>>
    /\ ictx.token_program \in {"token", "token_2022"}
    /\ ictx.associated_token_program = "associated_token"
    /\ ictx.system_program = "system"

\* The payer can pay for the record: it is an account of the system
\* program without data that holds the rent-exempt minimum.
PayerCanPay(ictx, lamports) ==
    /\ ictx.payer \in {"payer1", "payer2"}
    /\ lamports[ictx.payer] >= RentExemptMinimum

\* The mint of a call has its record.
HasRecord(accts, ictx) == ictx.mint \in Mints /\ RecordExists(accts, ictx.mint)

\* The statement of C5 as it was made, for calls whose accounts pass
\* validation and whose payer is an account of the system program: the
\* first call against an unallocated metadata address creates the record,
\* a call against a mint that has its record fails, no mint ever has two
\* records, and a failed call leaves the record as it was.
C5_AsClaimed ==
    /\ \A m \in Mints : records[m] <= 1
    /\ last.op = "initialize" =>
          /\ (/\ PassesValidation(last.ictx)
              /\ last.ictx.payer \in {"payer1", "payer2"}
              /\ last.pre_accounts[last.ictx.extra_account_meta_list] = Unallocated)
              => (last.result = "Ok" /\ RecordExists(accounts, last.ictx.mint))
          /\ HasRecord(last.pre_accounts, last.ictx) => last.result # "Ok"
          /\ last.result # "Ok" => accounts = last.pre_accounts

\* C5, amended: a call returns Ok(()) exactly when its accounts pass
\* validation, the metadata address holds no lamports and no data, and
\* the payer is an account of the system program without data that holds
\* the rent-exempt minimum; such a call creates the mint's record and
\* takes the rent-exempt minimum from the payer.  Every other call fails:
\* in particular one whose payer holds less, and every call against a mint
\* that has its record or against an address that holds lamports or data.
\* No mint ever has two records, and a failed call leaves the accounts,
\* the payers' lamports and the records as they were.
C5_ProvisionedOnce ==
    /\ \A m \in Mints :
          /\ records[m] <= 1
          /\ records[m] = 1 <=> RecordExists(accounts, m)
    /\ accounts[OtherAddress] = Unallocated
    /\ last.op = "initialize" =>
          /\ last.result = "Ok" <=>
                /\ PassesValidation(last.ictx)
                /\ last.pre_accounts[last.ictx.extra_account_meta_list] = Unallocated
                /\ PayerCanPay(last.ictx, last.pre_funds)
          /\ last.result = "Ok" =>
                /\ RecordExists(accounts, last.ictx.mint)
                /\ ~RecordExists(last.pre_accounts, last.ictx.mint)
                /\ records[last.ictx.mint] = 1
                /\ accounts[last.ictx.extra_account_meta_list].lamports
                      = RentExemptMinimum
                /\ funds[last.ictx.payer]
                      = last.pre_funds[last.ictx.payer] - RentExemptMinimum
                /\ \A a \in MetaAddresses \ {last.ictx.extra_account_meta_list} :
                      accounts[a] = last.pre_accounts[a]
          /\ last.pre_funds[last.ictx.payer] < RentExemptMinimum
              => last.result # "Ok"
          /\ HasRecord(last.pre_accounts, last.ictx) => last.result # "Ok"
          /\ last.pre_accounts[last.ictx.extra_account_meta_list] # Unallocated
              => last.result # "Ok"
          /\ last.result # "Ok" =>
                /\ accounts = last.pre_accounts
                /\ funds = last.pre_funds
                /\ records = last.pre_records

\* A second call against a mint that has its record, with accounts that
\* pass validation and a payer that could pay for it: it failed with the
\* address in use and the record is as it was.
C5_Witness ==
    /\ last.op = "initialize"
    /\ PassesValidation(last.ictx)
    /\ PayerCanPay(last.ictx, last.pre_funds)
    /\ RecordExists(last.pre_accounts, last.ictx.mint)
    /\ last.result = "AccountAlreadyInUse"
    /\ accounts = last.pre_accounts
    /\ records[last.ictx.mint] = 1

\* The sum of the balances of a mint's accounts, with the carries out of
\* 64 bits counted.
RECURSIVE SumOver(_, _)
SumOver(bal, S) ==
    IF S = {} THEN [value |-> U64Zero, carry |-> 0]
    ELSE LET a == CHOOSE x \in S : TRUE
             rest == SumOver(bal, S \ {a})
             sum == AddU64(rest.value, bal[a])
         IN  [value |-> sum.value, carry |-> rest.carry + sum.carry]

Supply(bal, mint) == SumOver(bal, {a \in TokenAccounts : MintOf[a] = mint})

\* C10: over any sequence of invocations, successful or failed, the sum of
\* the balances of each mint's accounts is what it was at the start (also
\* among the balances a failed invocation left behind to be discarded),
\* and an invocation of the hook leaves the metadata accounts, the payers'
\* lamports and the records as they were.
C10_SupplyConserved ==
    /\ \A m \in Mints :
          /\ Supply(balance, m) = Supply(InitialBalance, m)
          /\ Supply(last.out.work, m) = Supply(InitialBalance, m)
    /\ HookCall =>
          /\ accounts = last.pre_accounts
          /\ funds = last.pre_funds
          /\ records = last.pre_records

\* After a mint's record was created, a transfer of that mint succeeded
\* and moved tokens; the record is still there.
C10_Witness ==
    /\ Succeeded
    /\ calls >= 2
    /\ balance # last.pre
    /\ PairwiseDistinct(last.ctx)
    /\ records[last.ctx.mint] = 1
    /\ RecordExists(accounts, last.ctx.mint)

=============================================================================
